---- MODULE Spec2Model ----
(***************************************************************************)
(* A model of the table extraction engine of src/data/bulbapedia_scraper.py *)
(* and of the batch runs of the scrapers in src/data                       *)
(*                                                                         *)
(* A Python str is a sequence of Unicode code points, so that lower(),     *)
(* substring tests, regular-expression substitution, strip() and the       *)
(* ordering used by sorted() are computed, not assumed.  None is <<>> and  *)
(* a present optional value v is <<v>>.                                    *)
(***************************************************************************)
EXTENDS Integers, Sequences, FiniteSets, TLC

VARIABLES
    \* extract_sections
    pc,            \* "walk" | "done" | "raised"
    stack,         \* List[Tuple[int, str]]: records [level, title]
    sections,      \* Dict[Tuple[str, ...], ...]: set of records [path, tables]
    order,         \* insertion order of the keys of the dict `sections`
    output,        \* the returned list (after sorted())
    element,       \* the child of the container handled by the last step
    nElems,        \* children handled so far
    \* parse_table / _parse_row
    tpc,           \* "rows" | "cells" | "done" | "raised" | "off"
    span_map,      \* Dict[int, Tuple[str, int]]: set of [col, text, remaining]
    header_rows,
    data_rows,
    row_values,
    col_idx,
    is_header_row, \* no td cell among the cells of the row so far
    result,        \* what parse_table returns: <<>> (None) or <<TeamTable>>
    nCells,        \* cells handled so far in this table
    last_cell,     \* the cell handled by the last step
    cell_at,       \* col_idx and len(row_values) when that cell was placed
    grid,          \* the lists _parse_row has returned, one per row with cells
    placed,        \* the cells placed: [row, col, colspan, rowspan, text]
    row_spans,     \* span_map as it was when the row under way began
    \* _combine_headers
    hpc,           \* "merge" | "done" | "off"
    hrows,         \* header_rows as passed to _combine_headers
    hnext,         \* index of the next row of `normalized` to merge
    combined,
    hlast,         \* the running value before the last merge step
    \* main of bulbapedia_scraper.py
    mpc,           \* "start" | "loop" | "returned" | "raised" | "off"
    trainers,
    index,         \* trainers handled so far by the loop
    results,       \* Dict[str, object]
    failures,      \* Dict[str, str]
    exit_code,     \* what main has returned: <<>> or <<code>>
    \* scrape_trainer_data of pokemondb_scraper.py
    dpc,           \* "start" | "loop" | "returned" | "off"
    game_links,    \* List[tuple[str, str]]: records [game_name, url]
    dnext,         \* game links handled so far by the loop
    game_results,  \* the OrderedDict `results`: game_name -> [source, sections]
    printed,       \* the lines printed, in order
    delay,         \* the parameter delay, in seconds
    network,       \* the calls of session.get and time.sleep, in order
    \* PokemonTrainerScraper.scrape of pokemon_trainer_scraper.py
    spc,           \* "start" | "loop" | "returned" | "raised" | "off"
    games,         \* OrderedDict[str, str]: records [game_name, url], in order
    snext,         \* games handled so far by the loop
    scraped,       \* the OrderedDict `results`: game_name -> data
    \* concurrent invocations of extract_sections
    calls,         \* the local variables of each invocation
    schedule,      \* the invocations in the order of their steps
    \* BulbapediaTrainerScraper._fetch_page
    fpc,           \* "start" | "search" | "alt" | "returned" | "raised" | "off"
    fetch_name,    \* the parameter name
    sent,          \* the params of the requests made through _get, in order
    alt_title,     \* None (<<>>) or the alternative title (<<title>>)
    fetched        \* what _fetch_page has returned or raised: <<>> or <<outcome>>

vars == <<pc, stack, sections, order, output, element, nElems,
          tpc, span_map, header_rows, data_rows, row_values, col_idx,
          is_header_row, result, nCells, last_cell, cell_at, grid, placed,
          row_spans,
          hpc, hrows, hnext, combined, hlast,
          mpc, trainers, index, results, failures, exit_code,
          dpc, game_links, dnext, game_results, printed, delay, network,
          spc, games, snext, scraped, calls, schedule,
          fpc, fetch_name, sent, alt_title, fetched>>

walkVars == <<pc, stack, sections, order, output, element, nElems>>
tableVars == <<tpc, span_map, header_rows, data_rows, row_values, col_idx,
               is_header_row, result, nCells, last_cell, cell_at, grid, placed,
               row_spans>>
hdrVars == <<hpc, hrows, hnext, combined, hlast>>
mainVars == <<mpc, trainers, index, results, failures, exit_code>>

dbVars == <<dpc, game_links, dnext, game_results, printed, delay, network>>

scrapeVars == <<spc, games, snext, scraped>>

pairVars == <<calls, schedule>>

fetchVars == <<fpc, fetch_name, sent, alt_title, fetched>>

\* the variables of the batch runs and of the concurrent invocations
restVars == <<mainVars, dbVars, scrapeVars, pairVars, fetchVars>>

MainOff ==
    /\ mpc = "off"
    /\ trainers = <<>>
    /\ index = 0
    /\ results = <<>>
    /\ failures = <<>>
    /\ exit_code = <<>>

DbOff ==
    /\ dpc = "off"
    /\ game_links = <<>>
    /\ dnext = 0
    /\ game_results = <<>>
    /\ printed = <<>>
    /\ delay = 0
    /\ network = <<>>

ScrapeOff ==
    /\ spc = "off"
    /\ games = <<>>
    /\ snext = 0
    /\ scraped = <<>>

PairOff ==
    /\ calls = <<>>
    /\ schedule = <<>>

FetchOff ==
    /\ fpc = "off"
    /\ fetch_name = <<>>
    /\ sent = <<>>
    /\ alt_title = <<>>
    /\ fetched = <<>>

RestOff == MainOff /\ DbOff /\ ScrapeOff /\ PairOff /\ FetchOff

----------------------------------------------------------------------------
(* Python str operations, on sequences of code points *)

Max(a, b) == IF a >= b THEN a ELSE b

RECURSIVE Join(_, _)
\* sep.join(parts)
Join(parts, sep) ==
    IF parts = <<>> THEN <<>>
    ELSE IF Len(parts) = 1 THEN parts[1]
    ELSE parts[1] \o sep \o Join(Tail(parts), sep)

\* str.lower() on the Latin-1 range: A-Z and the accented capitals but the
\* multiplication sign
LowerChar(c) ==
    IF (c >= 65 /\ c <= 90) \/ (c >= 192 /\ c <= 222 /\ c # 215) THEN c + 32 ELSE c

Lower(s) == [i \in 1..Len(s) |-> LowerChar(s[i])]

HasPrefixAt(s, i, p) ==
    /\ i >= 1
    /\ i + Len(p) - 1 <= Len(s)
    /\ \A k \in 1..Len(p) : s[i + k - 1] = p[k]

\* needle in hay
Contains(hay, needle) == \E i \in 1..(Len(hay) + 1) : HasPrefixAt(hay, i, needle)

\* s.startswith(p)
StartsWith(s, p) == HasPrefixAt(s, 1, p)

RECURSIVE ReplaceFrom(_, _, _, _)
ReplaceFrom(s, i, old, new) ==
    IF i > Len(s) THEN <<>>
    ELSE IF HasPrefixAt(s, i, old) THEN new \o ReplaceFrom(s, i + Len(old), old, new)
    ELSE <<s[i]>> \o ReplaceFrom(s, i + 1, old, new)

\* s.replace(old, new), old non-empty
Replace(s, old, new) == ReplaceFrom(s, 1, old, new)

\* the characters the regular-expression class \s matches (Latin-1 range)
IsSpace(c) == c \in {9, 10, 11, 12, 13, 28, 29, 30, 31, 32, 133, 160}

\* the characters the class \d matches (Latin-1 range)
IsDigit(c) == c >= 48 /\ c <= 57

RECURSIVE SpacesEnd(_, _)
\* the first index at or after i that holds no whitespace
SpacesEnd(s, i) == IF i <= Len(s) /\ IsSpace(s[i]) THEN SpacesEnd(s, i + 1) ELSE i

RECURSIVE DigitsEnd(_, _)
DigitsEnd(s, i) == IF i <= Len(s) /\ IsDigit(s[i]) THEN DigitsEnd(s, i + 1) ELSE i

\* s.strip(): whitespace removed at both ends
StripChars(s, chars) ==
    LET keep == {i \in 1..Len(s) : s[i] \notin chars}
    IN IF keep = {} THEN <<>>
       ELSE LET lo == CHOOSE i \in keep : \A j \in keep : i <= j
                hi == CHOOSE i \in keep : \A j \in keep : i >= j
            IN SubSeq(s, lo, hi)

Strip(s) == StripChars(s, {9, 10, 11, 12, 13, 28, 29, 30, 31, 32, 133, 160})

RECURSIVE SplitFrom(_, _, _)
SplitFrom(s, i, c) ==
    LET stops == {j \in i..Len(s) : s[j] = c}
    IN IF stops = {} THEN << SubSeq(s, i, Len(s)) >>
       ELSE LET j == CHOOSE x \in stops : \A y \in stops : x <= y
            IN << SubSeq(s, i, j - 1) >> \o SplitFrom(s, j + 1, c)

\* s.split(c) for a one-character separator
Split(s, c) == SplitFrom(s, 1, c)

RECURSIVE DecStr(_)
\* str(n) for n >= 0, as the f-string formats idx + 1
DecStr(n) == IF n < 10 THEN << 48 + n >> ELSE DecStr(n \div 10) \o << 48 + (n % 10) >>

RECURSIVE DecVal(_)
\* the value of a non-empty run of decimal digits
DecVal(s) == IF s = <<>> THEN 0 ELSE 10 * DecVal(SubSeq(s, 1, Len(s) - 1)) + (s[Len(s)] - 48)

\* int(s): optional surrounding whitespace, optional sign, decimal digits;
\* anything else raises ValueError (ok = FALSE)
IntOfDigits(negative, digits) ==
    IF digits # <<>> /\ \A i \in 1..Len(digits) : IsDigit(digits[i])
    THEN [ok |-> TRUE, val |-> IF negative THEN 0 - DecVal(digits) ELSE DecVal(digits)]
    ELSE [ok |-> FALSE, val |-> 0]

IntOfStripped(t) ==
    IF t # <<>> /\ t[1] \in {43, 45} THEN IntOfDigits(t[1] = 45, Tail(t))
    ELSE IntOfDigits(FALSE, t)

int(s) == IntOfStripped(Strip(s))

RECURSIVE StrLess(_, _)
\* a < b for str: by code point, a proper prefix first
StrLess(a, b) ==
    IF b = <<>> THEN FALSE
    ELSE IF a = <<>> THEN TRUE
    ELSE IF a[1] # b[1] THEN a[1] < b[1]
    ELSE StrLess(Tail(a), Tail(b))

RECURSIVE TupleLess(_, _)
\* p < q for tuples of str
TupleLess(p, q) ==
    IF q = <<>> THEN FALSE
    ELSE IF p = <<>> THEN TRUE
    ELSE IF p[1] # q[1] THEN StrLess(p[1], q[1])
    ELSE TupleLess(Tail(p), Tail(q))

----------------------------------------------------------------------------
(* Module constants *)

HEADING_TAGS == {"h2", "h3", "h4", "h5"}

\* HeadingLevel counting the tags from one: h2 is level 1
HeadingLevelFromOne(name) == CASE name = "h2" -> 1 [] name = "h3" -> 2
                               [] name = "h4" -> 3 [] name = "h5" -> 4

\* int(element.name[1])
HeadingLevel(name) == CASE name = "h2" -> 2 [] name = "h3" -> 3
                        [] name = "h4" -> 4 [] name = "h5" -> 5

TABLE_KEYWORDS == <<
    <<112,111,107,233,109,111,110>>,         \* "pokémon"
    <<112,111,107,101,109,111,110>>,         \* "pokemon"
    <<108,101,118,101,108>>,                 \* "level"
    <<109,111,118,101,115>>,                 \* "moves"
    <<109,111,118,101>>,                     \* "move"
    <<97,98,105,108,105,116,121>>,           \* "ability"
    <<97,98,105,108,105,116,105,101,115>>,   \* "abilities"
    <<105,116,101,109>>,                     \* "item"
    <<105,116,101,109,115>> >>               \* "items"

----------------------------------------------------------------------------
(* clean_text and cell_text *)

\* REFERENCE_RE = \[(?:note\s*\d+|\d+)\] matched at index i: the index after
\* the match, 0 when there is none.  The two alternatives exclude each other
\* and the greedy runs cannot give characters back, so the match is unique.
\* j is where the digits must start, k where they end
RefClose(s, j, k) == IF k > j /\ k <= Len(s) /\ s[k] = 93 THEN k + 1 ELSE 0

RefDigits(s, j) == RefClose(s, j, DigitsEnd(s, j))

RefMatchEnd(s, i) ==
    IF i > Len(s) \/ s[i] # 91 THEN 0
    ELSE RefDigits(s, IF HasPrefixAt(s, i + 1, <<110,111,116,101>>)
                      THEN SpacesEnd(s, i + 5) ELSE i + 1)

RECURSIVE RefSubFrom(_, _)
RECURSIVE RefSubStep(_, _, _)
\* REFERENCE_RE.sub("", s): one pass, left to right, matches not overlapping;
\* e is the end of the match at i, 0 when there is none
RefSubStep(s, i, e) ==
    IF e > 0 THEN RefSubFrom(s, e) ELSE <<s[i]>> \o RefSubFrom(s, i + 1)

RefSubFrom(s, i) == IF i > Len(s) THEN <<>> ELSE RefSubStep(s, i, RefMatchEnd(s, i))

RECURSIVE WsSubFrom(_, _)
\* WHITESPACE_RE.sub(" ", s)
WsSubFrom(s, i) ==
    IF i > Len(s) THEN <<>>
    ELSE IF IsSpace(s[i]) THEN <<32>> \o WsSubFrom(s, SpacesEnd(s, i))
    ELSE <<s[i]>> \o WsSubFrom(s, i + 1)

clean_text(text) ==
    StripChars(WsSubFrom(RefSubFrom(Replace(text, <<160>>, <<32>>), 1), 1),
               {32, 59, 44, 8224})

\* The text nodes get_text sees, in document order.  A node is
\* [tag, classes, text]: tag "" is a bare string, any other tag an element
\* holding one string.
NodeTexts(nodes) == [i \in 1..Len(nodes) |-> nodes[i].text]

\* tag.get_text(sep, strip=True): the stripped strings that are not empty,
\* joined by sep
get_text(texts, sep) ==
    Join(SelectSeq([i \in 1..Len(texts) |-> Strip(texts[i])], LAMBDA t : t # <<>>), sep)

\* the nodes of a cell that cell_text decomposes
Decomposed(node) ==
    /\ node.tag \in {"sup", "span", "div"}
    /\ \/ node.tag = "sup"
       \/ \E i \in 1..Len(node.classes) :
            \/ StartsWith(node.classes[i], <<114,101,102,101,114,101,110,99,101>>)
            \/ StartsWith(node.classes[i], <<116,111,111,108,116,105,112>>)

\* parts = [clean_text(part) for part in text.split("\n")], joined by "; "
\* without the empty ones
JoinParts(split) ==
    Join(SelectSeq([i \in 1..Len(split) |-> clean_text(split[i])], LAMBDA p : p # <<>>),
         <<59, 32>>)

TextOfParts(text) == IF text = <<>> THEN <<>> ELSE JoinParts(Split(text, 10))

cell_text(cell) ==
    TextOfParts(get_text(NodeTexts(SelectSeq(cell.nodes, LAMBDA n : ~Decomposed(n))), <<10>>))

----------------------------------------------------------------------------
(* The grid builder: _consume_spans, _parse_row *)

HasSpan(map, c) == \E e \in map : e.col = c

SpanAt(map, c) == CHOOSE e \in map : e.col = c

\* span_map[c] = (text, remaining)
SetSpan(map, c, text, remaining) ==
    {e \in map : e.col # c} \cup {[col |-> c, text |-> text, remaining |-> remaining]}

\* remaining -= 1, then the entry is written back or deleted
Decremented(map, e) ==
    IF e.remaining - 1 > 0 THEN SetSpan(map, e.col, e.text, e.remaining - 1) ELSE map \ {e}

RECURSIVE _consume_spans(_, _, _)
\* Returns, with the new col_idx, the row_values and span_map it has changed
\* in place.
_consume_spans(rv, map, c) ==
    IF ~HasSpan(map, c) THEN [row_values |-> rv, span_map |-> map, col_idx |-> c]
    ELSE _consume_spans(Append(rv, SpanAt(map, c).text), Decremented(map, SpanAt(map, c)), c + 1)

\* int(cell.get(name, 1) or 1): the attribute is [present, value]; a missing
\* attribute gives the default 1 and an empty value is falsy, while any other
\* string, "0" included, is truthy and goes to int()
SpanAttr(attr) ==
    IF ~attr.present \/ attr.value = <<>> THEN [ok |-> TRUE, val |-> 1] ELSE int(attr.value)

RECURSIVE RegisterSpans(_, _, _, _, _)
\* for offset in range(colspan): span_map[col_idx + offset] = (text, rowspan - 1)
RegisterSpans(map, c, colspan, text, remaining) ==
    IF colspan <= 0 THEN map
    ELSE RegisterSpans(SetSpan(map, c, text, remaining), c + 1, colspan - 1, text, remaining)

\* The cell's values are appended and its spans registered; c is what
\* _consume_spans has returned, colspan and rowspan the two int() results
\* (ok = FALSE: a ValueError).
PlaceCell(c, text, colspan, rowspan) ==
    IF ~colspan.ok \/ ~rowspan.ok
    THEN [row_values |-> c.row_values, span_map |-> c.span_map,
          col_idx |-> c.col_idx, raised |-> TRUE]
    ELSE [row_values |-> c.row_values \o [i \in 1..colspan.val |-> text],
          span_map |-> IF rowspan.val > 1
                       THEN RegisterSpans(c.span_map, c.col_idx, colspan.val,
                                          text, rowspan.val - 1)
                       ELSE c.span_map,
          col_idx |-> c.col_idx + colspan.val,
          raised |-> FALSE]

\* One iteration of the loop over the cells of a row.  st is
\* [row_values, span_map, col_idx, raised].
CellStep(st, cell) ==
    PlaceCell(_consume_spans(st.row_values, st.span_map, st.col_idx),
              cell_text(cell), SpanAttr(cell.colspan), SpanAttr(cell.rowspan))

RECURSIVE CellLoop(_, _)
CellLoop(st, cells) ==
    IF cells = <<>> \/ st.raised THEN st ELSE CellLoop(CellStep(st, Head(cells)), Tail(cells))

\* c is what _consume_spans has returned
Cursor(c) ==
    [row_values |-> c.row_values, span_map |-> c.span_map, col_idx |-> c.col_idx,
     raised |-> FALSE]

\* row_values = [], col_idx = 0 and the first _consume_spans
RowBegin(map) == Cursor(_consume_spans(<<>>, map, 0))

Returned(c, raised) ==
    [row_values |-> c.row_values, span_map |-> c.span_map, raised |-> raised]

\* the last _consume_spans and the return
RowEnd(st) ==
    IF st.raised THEN Returned(st, TRUE)
    ELSE Returned(_consume_spans(st.row_values, st.span_map, st.col_idx), FALSE)

\* Returns [row_values, span_map, raised]: the list it returns, the map it
\* has changed in place, and whether int() raised.
_parse_row(cells, map) == RowEnd(CellLoop(RowBegin(map), cells))

----------------------------------------------------------------------------
(* The header merger: _combine_headers, _normalize_columns *)

\* ColumnLabel numbering from 0
ColumnLabelFromZero(idx0) == <<67,111,108,117,109,110,32>> \o DecStr(idx0)

\* f"Column {idx + 1}", idx0 being the 0-based index
ColumnLabel(idx0) == <<67,111,108,117,109,110,32>> \o DecStr(idx0 + 1)

MaxLen(rows) ==
    IF rows = <<>> THEN 0
    ELSE CHOOSE n \in {Len(rows[i]) : i \in 1..Len(rows)} :
            \A i \in 1..Len(rows) : Len(rows[i]) <= n

PadTo(row, width) == row \o [i \in 1..Max(width - Len(row), 0) |-> <<>>]

\* normalized = [row + [""] * (width - len(row)) for row in header_rows]
Normalized(rows) == [i \in 1..Len(rows) |-> PadTo(rows[i], MaxLen(rows))]

\* MergeCleaned comparing without lower()
MergeCleanedCaseSensitive(top, bottom) ==
    IF top # <<>> /\ bottom # <<>> /\ ~Contains(top, bottom)
    THEN top \o <<32,45,32>> \o bottom
    ELSE IF bottom # <<>> THEN bottom ELSE top

\* top and bottom after clean_text
MergeCleaned(top, bottom) ==
    IF top # <<>> /\ bottom # <<>> /\ ~Contains(Lower(top), Lower(bottom))
    THEN top \o <<32,45,32>> \o bottom
    ELSE IF bottom # <<>> THEN bottom ELSE top

\* One position of the inner loop: top is the running value, bottom the new
\* row's value.
MergeCell(top, bottom) == MergeCleaned(clean_text(top), clean_text(bottom))

\* One iteration of the loop over normalized[1:]
MergeRow(comb, row) == [i \in 1..Len(comb) |-> MergeCell(comb[i], row[i])]

\* the return expression: an empty column gets its placeholder
FillEmpty(comb) ==
    [i \in 1..Len(comb) |-> IF comb[i] # <<>> THEN comb[i] ELSE ColumnLabel(i - 1)]

RECURSIVE MergeLoop(_, _, _)
MergeLoop(comb, normalized, k) ==
    IF k > Len(normalized) THEN comb
    ELSE MergeLoop(MergeRow(comb, normalized[k]), normalized, k + 1)

CombineNormalized(normalized) == FillEmpty(MergeLoop(normalized[1], normalized, 2))

_combine_headers(rows) == IF rows = <<>> THEN <<>> ELSE CombineNormalized(Normalized(rows))

\* columns[:width] + [f"Column {idx + 1}" for idx in range(len(columns), width)]
Resized(columns, width) ==
    SubSeq(columns, 1, IF width < Len(columns) THEN width ELSE Len(columns))
    \o [i \in 1..Max(width - Len(columns), 0) |-> ColumnLabel(Len(columns) + i - 1)]

_normalize_columns(columns, width) == FillEmpty(Resized(columns, width))

----------------------------------------------------------------------------
(* parse_table *)

CleanRow(rv) == [i \in 1..Len(rv) |-> clean_text(rv[i])]

AnyValue(rv) == \E i \in 1..Len(rv) : rv[i] # <<>>

IsHeaderRow(cells) == ~(\E i \in 1..Len(cells) : cells[i].name = "td")

\* rv is the cleaned row: a row without any value is dropped, a row without
\* td cell is a header row
KeepRow(st, header, rv) ==
    IF ~AnyValue(rv) THEN st
    ELSE IF header THEN [st EXCEPT !.header_rows = Append(st.header_rows, rv)]
    ELSE [st EXCEPT !.data_rows = Append(st.data_rows, rv)]

\* r is what _parse_row has returned
AfterRow(st, header, r) ==
    IF r.raised THEN [st EXCEPT !.span_map = r.span_map, !.raised = TRUE]
    ELSE KeepRow([st EXCEPT !.span_map = r.span_map], header, CleanRow(r.row_values))

\* One iteration of the loop over the rows; st is
\* [span_map, header_rows, data_rows, raised].
RowStep(st, cells) ==
    IF cells = <<>> THEN st
    ELSE AfterRow(st, IsHeaderRow(cells), _parse_row(cells, st.span_map))

RECURSIVE RowLoop(_, _)
RowLoop(st, rows) ==
    IF rows = <<>> \/ st.raised THEN st ELSE RowLoop(RowStep(st, Head(rows)), Tail(rows))

\* Width without the data rows
WidthOfHeader(header, rows) == Len(header)

\* width = max(len(header) if header else 0,
\*             max((len(row) for row in data_rows), default=0))
Width(header, rows) == Max(Len(header), MaxLen(rows))

\* Entry keeping the first of the columns that carry one label
EntryOfFirst(header, padded, width) ==
    [l \in {header[i] : i \in 1..width} |->
        padded[CHOOSE i \in 1..width :
                 /\ header[i] = l
                 /\ \A j \in 1..width : header[j] = l => j >= i]]

\* entry = {header[idx]: padded[idx] for idx in range(width)}: a later column
\* with the same label overwrites the earlier one
Entry(header, padded, width) ==
    [l \in {header[i] : i \in 1..width} |->
        padded[CHOOSE i \in 1..width :
                 /\ header[i] = l
                 /\ \A j \in 1..width : header[j] = l => j <= i]]

AnyEntryValue(entry) == \E l \in DOMAIN entry : entry[l] # <<>>

\* clean_text(caption_tag.get_text(" ", strip=True)) if caption_tag else None,
\* and `title or None`; the caption is <<>> (no caption tag) or <<texts>>
Optional(t) == IF t = <<>> THEN <<>> ELSE <<t>>

Title(caption) ==
    IF caption = <<>> THEN <<>> ELSE Optional(clean_text(get_text(caption[1], <<32>>)))

\* MakeTable without `if not rows: return None`
MakeTableOfNoRows(header, rows, caption) ==
    << [title |-> Title(caption), columns |-> header, rows |-> rows] >>

\* the return: None without rows, else the TeamTable
MakeTable(header, rows, caption) ==
    IF rows = <<>> THEN <<>>
    ELSE << [title |-> Title(caption), columns |-> header, rows |-> rows] >>

\* rows: one entry per data row, padded, kept when it has a value
BuildRows(header, width, drs, caption) ==
    MakeTable(header,
              SelectSeq([i \in 1..Len(drs) |-> Entry(header, PadTo(drs[i], width), width)],
                        AnyEntryValue),
              caption)

BuildWithWidth(header, width, drs, caption) ==
    IF width = 0 THEN <<>>
    ELSE BuildRows(IF header = <<>> THEN [i \in 1..width |-> ColumnLabel(i - 1)]
                   ELSE _normalize_columns(header, width),
                   width, drs, caption)

BuildWithHeader(header, drs, caption) ==
    BuildWithWidth(header, Width(header, drs), drs, caption)

\* parse_table from line 320 on: <<>> is None, <<t>> a TeamTable
BuildTable(hrs, drs, caption) ==
    IF drs = <<>> /\ hrs = <<>> THEN <<>>
    ELSE BuildWithHeader(_combine_headers(hrs), drs, caption)

TableOfRows(st, caption) ==
    IF st.raised THEN [raised |-> TRUE, table |-> <<>>]
    ELSE [raised |-> FALSE, table |-> BuildTable(st.header_rows, st.data_rows, caption)]

\* A table is [classes, caption, rows]; a row is the list of its th and td
\* cells; a cell is [name, nodes, colspan, rowspan].  Returns
\* [raised, table].
parse_table(table) ==
    TableOfRows(RowLoop([span_map |-> {}, header_rows |-> <<>>, data_rows |-> <<>>,
                         raised |-> FALSE], table.rows),
                table.caption)

RECURSIVE Flatten(_)
Flatten(rows) == IF rows = <<>> THEN <<>> ELSE Head(rows) \o Flatten(Tail(rows))

\* header_text = " ".join(cell_text(th).lower() for th in table.find_all("th"))
HeaderText(ths) == Join([i \in 1..Len(ths) |-> Lower(cell_text(ths[i]))], <<32>>)

HasKeyword(header_text) ==
    IF header_text = <<>> THEN FALSE
    ELSE \E k \in 1..Len(TABLE_KEYWORDS) : Contains(header_text, TABLE_KEYWORDS[k])

_is_team_table(table) ==
    IF \E i \in 1..Len(table.classes) : Contains(table.classes[i], <<110,97,118,98,111,120>>)
    THEN FALSE
    ELSE HasKeyword(HeaderText(SelectSeq(Flatten(table.rows), LAMBDA c : c.name = "th")))

----------------------------------------------------------------------------
(* extract_sections: the walk over the children of the container *)

MaxElems == 6

\* _normalize_heading: get_text(" ", strip=True), "[edit]" removed, clean_text
_normalize_heading(heading) ==
    clean_text(Replace(get_text(heading.texts, <<32>>), <<91,101,100,105,116,93>>, <<>>))

\* The children a document is made of.  A child is
\* [string, name, texts, table]: string marks a NavigableString, name is the
\* tag name, texts the strings of a heading, table the table of a table tag.
Tag(name, texts) ==
    [string |-> FALSE, name |-> name, texts |-> texts, table |-> <<>>, children |-> <<>>]

NavigableString ==
    [string |-> TRUE, name |-> "", texts |-> <<>>, table |-> <<>>, children |-> <<>>]

TableTag(table) ==
    [string |-> FALSE, name |-> "table", texts |-> <<>>, table |-> <<table>>,
     children |-> <<>>]

\* a div with the elements `children` nested inside it
Div(children) ==
    [string |-> FALSE, name |-> "div", texts |-> <<>>, table |-> <<>>,
     children |-> children]

TextNode(text) == [tag |-> "", classes |-> <<>>, text |-> text]

NoAttr == [present |-> FALSE, value |-> <<>>]

Attr(value) == [present |-> TRUE, value |-> value]

PlainCell(name, text) ==
    [name |-> name, nodes |-> << TextNode(text) >>, colspan |-> NoAttr, rowspan |-> NoAttr]

sPokemon == <<80,111,107,233,109,111,110>>                 \* "Pokémon"
sEdit == <<91,101,100,105,116,93>>                         \* "[edit]"
sTrivia == <<84,114,105,118,105,97>>                       \* "Trivia"
sRedAndBlue == <<82,101,100,32,97,110,100,32,66,108,117,101>>   \* "Red and Blue"
sBlue == <<66,108,117,101>>                                \* "Blue"
sGymLeaders == <<71,121,109,32,76,101,97,100,101,114,115>> \* "Gym Leaders"
sLevel == <<76,101,118,101,108>>                           \* "Level"
sPidgey == <<80,105,100,103,101,121>>                      \* "Pidgey"
sType == <<84,121,112,101>>                                \* "Type"
sFire == <<70,105,114,101>>                                \* "Fire"
sMove == <<77,111,118,101>>                                \* "Move"

\* <table><tr><th>Pokémon</th><th>Level</th></tr>
\*        <tr><td>Pidgey</td><td>7</td></tr></table>
tblRoster ==
    [classes |-> <<>>, caption |-> <<>>,
     rows |-> << << PlainCell("th", sPokemon), PlainCell("th", sLevel) >>,
                 << PlainCell("td", sPidgey), PlainCell("td", <<55>>) >> >>]

\* a second roster, with a caption and a data row without text:
\* <caption>Blue</caption><tr><th>Move</th></tr><tr><td>Fire</td></tr>
\* <tr><td> </td></tr>
tblMoves ==
    [classes |-> <<>>, caption |-> << << sBlue >> >>,
     rows |-> << << PlainCell("th", sMove) >>, << PlainCell("td", sFire) >>,
                 << PlainCell("td", <<32>>) >> >>]

\* the roster inside a navigation box
tblNavbox == [tblRoster EXCEPT !.classes = << <<110,97,118,98,111,120>> >>]

\* a table whose header names no roster keyword
tblType ==
    [classes |-> <<>>, caption |-> <<>>,
     rows |-> << << PlainCell("th", sType) >>, << PlainCell("td", sFire) >> >>]

\* a roster header without any data row: parse_table returns None
tblHeaderOnly ==
    [classes |-> <<>>, caption |-> <<>>, rows |-> << << PlainCell("th", sLevel) >> >>]

\* a roster with the cell <td colspan="x">: int() raises
tblBadSpan ==
    [classes |-> <<>>, caption |-> <<>>,
     rows |-> << << PlainCell("th", sLevel) >>,
                 << [PlainCell("td", <<55>>) EXCEPT !.colspan = Attr(<<120>>)] >> >>]

\* <div><h2>Trivia</h2><table>the roster</table></div>
divNested == Div(<< Tag("h2", << sTrivia >>), TableTag(tblRoster) >>)

DocElements ==
    { NavigableString,
      divNested,
      Tag("h6", << sPokemon >>),
      Tag("h2", << sPokemon >>),
      Tag("h2", << sPokemon, sEdit >>),
      Tag("h2", << sTrivia >>),
      Tag("h3", << sRedAndBlue >>),
      Tag("h3", << sBlue >>),
      Tag("h3", << sPokemon >>),
      Tag("h3", << sEdit >>),
      Tag("h4", << sGymLeaders >>),
      Tag("h5", << sBlue >>),
      TableTag(tblRoster), TableTag(tblMoves), TableTag(tblNavbox),
      TableTag(tblType), TableTag(tblHeaderOnly), TableTag(tblBadSpan) }

RECURSIVE PopWhileDeeper(_, _)
\* PopWhile with > for >=: a heading would not close one of its own level
PopWhileDeeper(stk, level) ==
    IF stk # <<>> /\ stk[Len(stk)].level > level
    THEN PopWhileDeeper(SubSeq(stk, 1, Len(stk) - 1), level)
    ELSE stk

RECURSIVE PopWhile(_, _)
\* while stack and stack[-1][0] >= level: stack.pop()
PopWhile(stk, level) ==
    IF stk # <<>> /\ stk[Len(stk)].level >= level
    THEN PopWhile(SubSeq(stk, 1, Len(stk) - 1), level)
    ELSE stk

\* PushHeading with the `if not title: continue` after the while loop
PushHeadingClosing(stk, level, title) ==
    IF title = <<>> THEN PopWhile(stk, level)
    ELSE Append(PopWhile(stk, level), [level |-> level, title |-> title])

\* lines 376-380: a heading without title changes nothing, any other closes
\* the headings at its level or deeper and is pushed
PushHeading(stk, level, title) ==
    IF title = <<>> THEN stk
    ELSE Append(PopWhile(stk, level), [level |-> level, title |-> title])

\* PokemonGate without the level test
PokemonGateAnyLevel(stk) ==
    \E i \in 1..Len(stk) :
        Contains(Lower(stk[i].title), <<112,111,107,233,109,111,110>>)

\* any(level <= 2 and "pokémon" in title.lower() for level, title in stack)
PokemonGate(stk) ==
    \E i \in 1..Len(stk) :
        stk[i].level <= 2 /\ Contains(Lower(stk[i].title), <<112,111,107,233,109,111,110>>)

\* Path with the innermost heading first
PathInnermostFirst(stk) == [i \in 1..Len(stk) |-> stk[Len(stk) + 1 - i].title]

\* tuple(title for _, title in stack)
Path(stk) == [i \in 1..Len(stk) |-> stk[i].title]

HasKey(secs, path) == \E s \in secs : s.path = path

SectionOf(secs, path) == CHOOSE s \in secs : s.path = path

\* AddTable with an assignment for the setdefault: the entry is replaced
AddTableReplacing(secs, path, table) ==
    {s \in secs : s.path # path} \cup {[path |-> path, tables |-> << table >>]}

\* sections.setdefault(path, {...})["tables"].append(table.to_dict())
AddTable(secs, path, table) ==
    IF HasKey(secs, path)
    THEN {s \in secs : s.path # path}
         \cup {[path |-> path, tables |-> Append(SectionOf(secs, path).tables, table)]}
    ELSE secs \cup {[path |-> path, tables |-> << table >>]}

\* the key order of the dict after that setdefault
AddKey(keys, secs, path) == IF HasKey(secs, path) THEN keys ELSE Append(keys, path)

RECURSIVE Insert(_, _)
Insert(sorted, p) ==
    IF sorted = <<>> THEN << p >>
    ELSE IF TupleLess(p, Head(sorted)) THEN << p >> \o sorted
    ELSE << Head(sorted) >> \o Insert(Tail(sorted), p)

RECURSIVE SortedFrom(_, _)
SortedFrom(keys, acc) ==
    IF keys = <<>> THEN acc ELSE SortedFrom(Tail(keys), Insert(acc, Head(keys)))

\* OrderedPaths without the sort: the dict's own key order
OrderedPathsUnsorted(keys) == keys

\* ordered_paths = sorted(sections.keys()): keys is the dict's key order
OrderedPaths(keys) == SortedFrom(keys, <<>>)

\* [sections[path] for path in ordered_paths]
SectionList(secs, paths) == [i \in 1..Len(paths) |-> SectionOf(secs, paths[i])]

\* a tr without th or td, as the last thing handled
EmptyTr == [name |-> "tr", nodes |-> <<>>, colspan |-> NoAttr, rowspan |-> NoAttr]

InitWalk ==
    /\ pc = "walk"
    /\ stack = <<>>
    /\ sections = {}
    /\ order = <<>>
    /\ output = <<>>
    /\ element = NavigableString
    /\ nElems = 0

TableOff ==
    /\ tpc = "off"
    /\ span_map = {}
    /\ header_rows = <<>>
    /\ data_rows = <<>>
    /\ row_values = <<>>
    /\ col_idx = 0
    /\ is_header_row = TRUE
    /\ result = <<>>
    /\ nCells = 0
    /\ last_cell = EmptyTr
    /\ cell_at = [col |-> 0, len |-> 0]
    /\ grid = <<>>
    /\ placed = {}
    /\ row_spans = {}

HdrOff ==
    /\ hpc = "off"
    /\ hrows = <<>>
    /\ hnext = 0
    /\ combined = <<>>
    /\ hlast = <<>>

Init == InitWalk /\ TableOff /\ HdrOff /\ RestOff

\* the next child of the container is e
Visit(e) ==
    /\ pc = "walk"
    /\ nElems < MaxElems
    /\ element' = e
    /\ nElems' = nElems + 1
    /\ output' = output
    /\ UNCHANGED <<tableVars, hdrVars, restVars>>

\* a NavigableString, or a tag that is neither a heading h2-h5 nor a table
SkipElement(e) ==
    /\ e.string \/ (e.name \notin HEADING_TAGS /\ e.name # "table")
    /\ Visit(e)
    /\ UNCHANGED <<pc, stack, sections, order>>

Heading(e) ==
    /\ ~e.string
    /\ e.name \in HEADING_TAGS
    /\ Visit(e)
    /\ stack' = PushHeading(stack, HeadingLevel(e.name), _normalize_heading(e))
    /\ UNCHANGED <<pc, sections, order>>

\* lines 391-396: t is what parse_table has returned
Parsed(t) ==
    IF t.raised THEN pc' = "raised" /\ UNCHANGED <<sections, order>>
    ELSE IF t.table = <<>> THEN UNCHANGED <<pc, sections, order>>
    ELSE /\ pc' = pc
         /\ sections' = AddTable(sections, Path(stack), t.table[1])
         /\ order' = AddKey(order, sections, Path(stack))

Table(e) ==
    /\ ~e.string
    /\ e.name = "table"
    /\ Visit(e)
    /\ stack' = stack
    /\ IF stack = <<>> \/ ~PokemonGate(stack) \/ ~_is_team_table(e.table[1])
       THEN UNCHANGED <<pc, sections, order>>
       ELSE Parsed(parse_table(e.table[1]))

\* scrape_trainer: [section for section in sections if section["tables"]]
Emitted(secs) == SelectSeq(secs, LAMBDA sec : sec.tables # <<>>)

\* the children are exhausted: the sorted list is returned
Return ==
    /\ pc = "walk"
    /\ pc' = "done"
    /\ output' = SectionList(sections, OrderedPaths(order))
    /\ UNCHANGED <<stack, sections, order, element, nElems, tableVars, hdrVars, restVars>>

Next ==
    \/ \E e \in DocElements : SkipElement(e)
    \/ \E e \in DocElements : Heading(e)
    \/ \E e \in DocElements : Table(e)
    \/ Return

Spec == Init /\ [][Next]_vars

----------------------------------------------------------------------------
(* parse_table, cell by cell, on a table that has no caption *)

MaxCells == 3

SpanCell(name, text, colspan, rowspan) ==
    [name |-> name, nodes |-> << TextNode(text) >>, colspan |-> colspan, rowspan |-> rowspan]

\* The cells a table is made of: plain cells with and without text, a
\* rowspan and a colspan, and the attribute values "0", "", "-1" and "x".
GridCells ==
    { PlainCell("td", <<65>>),                              \* <td>A</td>
      PlainCell("td", <<>>),                                \* <td></td>
      PlainCell("th", <<72>>),                              \* <th>H</th>
      PlainCell("th", <<>>),                                \* <th></th>
      SpanCell("td", <<66>>, NoAttr, Attr(<<51>>)),         \* <td rowspan="3">B</td>
      SpanCell("th", <<72>>, Attr(<<50>>), NoAttr),         \* <th colspan="2">H</th>
      SpanCell("td", <<68>>, Attr(<<48>>), NoAttr),         \* <td colspan="0">D</td>
      SpanCell("td", <<69>>, Attr(<<>>), Attr(<<48>>)),     \* <td colspan="" rowspan="0">E</td>
      SpanCell("td", <<70>>, Attr(<<45,49>>), NoAttr),      \* <td colspan="-1">F</td>
      SpanCell("td", <<71>>, Attr(<<120>>), NoAttr) }       \* <td colspan="x">G</td>

WalkOff ==
    /\ pc = "off"
    /\ stack = <<>>
    /\ sections = {}
    /\ order = <<>>
    /\ output = <<>>
    /\ element = NavigableString
    /\ nElems = 0

InitTable ==
    /\ tpc = "rows"
    /\ span_map = {}
    /\ header_rows = <<>>
    /\ data_rows = <<>>
    /\ row_values = <<>>
    /\ col_idx = 0
    /\ is_header_row = TRUE
    /\ result = <<>>
    /\ nCells = 0
    /\ last_cell = EmptyTr
    /\ cell_at = [col |-> 0, len |-> 0]
    /\ grid = <<>>
    /\ placed = {}
    /\ row_spans = {}

\* a tr without cells: `if not cells: continue`
EmptyRow ==
    /\ tpc = "rows"
    /\ last_cell' = EmptyTr
    /\ UNCHANGED <<tpc, span_map, header_rows, data_rows, row_values, col_idx,
                   is_header_row, result, nCells, cell_at, grid, placed, row_spans>>
    /\ UNCHANGED <<walkVars, hdrVars, restVars>>

\* st is what the iteration for cell c has computed from the cursor `at`
Stored(c, at, st, header) ==
    /\ last_cell' = c
    /\ cell_at' = [col |-> at.col_idx, len |-> Len(at.row_values)]
    /\ nCells' = nCells + 1
    /\ row_values' = st.row_values
    /\ span_map' = st.span_map
    /\ col_idx' = st.col_idx
    /\ is_header_row' = header
    /\ tpc' = IF st.raised THEN "raised" ELSE "cells"
    /\ placed' = IF st.raised THEN placed
                 ELSE placed \cup {[row |-> Len(grid) + 1, col |-> at.col_idx,
                                    colspan |-> SpanAttr(c.colspan).val,
                                    rowspan |-> SpanAttr(c.rowspan).val,
                                    text |-> cell_text(c)]}
    /\ UNCHANGED <<header_rows, data_rows, result, grid>>
    /\ UNCHANGED <<walkVars, hdrVars, restVars>>

\* one iteration of the loop over the cells, from the cursor `at` that
\* _consume_spans has left
Iteration(c, at, header) == Stored(c, at, CellStep(at, c), header)

\* the first cell of a row: _parse_row starts, with its first
\* _consume_spans, and the loop handles the cell
FirstCell(c) ==
    /\ tpc = "rows"
    /\ nCells < MaxCells
    /\ row_spans' = span_map
    /\ Iteration(c, RowBegin(span_map), c.name # "td")

\* a further cell of the row
NextCell(c) ==
    /\ tpc = "cells"
    /\ nCells < MaxCells
    /\ row_spans' = row_spans
    /\ Iteration(c, Cursor(_consume_spans(row_values, span_map, col_idx)),
                 is_header_row /\ c.name # "td")

\* r is what _parse_row returns, st the lists after lines 311-318
RowStored(r, st) ==
    /\ row_values' = r.row_values
    /\ grid' = Append(grid, r.row_values)
    /\ span_map' = st.span_map
    /\ header_rows' = st.header_rows
    /\ data_rows' = st.data_rows
    /\ tpc' = "rows"
    /\ UNCHANGED <<col_idx, is_header_row, result, nCells, last_cell, cell_at, placed,
                   row_spans>>
    /\ UNCHANGED <<walkVars, hdrVars, restVars>>

RowReturned(r) ==
    RowStored(r, AfterRow([span_map |-> span_map, header_rows |-> header_rows,
                           data_rows |-> data_rows, raised |-> FALSE],
                          is_header_row, r))

\* the cells of the row are exhausted: the last _consume_spans, and the row
\* is cleaned, classified and kept or dropped
EndRow ==
    /\ tpc = "cells"
    /\ RowReturned(RowEnd([row_values |-> row_values, span_map |-> span_map,
                           col_idx |-> col_idx, raised |-> FALSE]))

\* the rows are exhausted: lines 320-344
Finish ==
    /\ tpc = "rows"
    /\ tpc' = "done"
    /\ result' = BuildTable(header_rows, data_rows, <<>>)
    /\ UNCHANGED <<span_map, header_rows, data_rows, row_values, col_idx,
                   is_header_row, nCells, last_cell, cell_at, grid, placed, row_spans>>
    /\ UNCHANGED <<walkVars, hdrVars, restVars>>

NextTable ==
    \/ EmptyRow
    \/ \E c \in GridCells : FirstCell(c)
    \/ \E c \in GridCells : NextCell(c)
    \/ EndRow
    \/ Finish

InitTableSpec == WalkOff /\ InitTable /\ HdrOff /\ RestOff

SpecTable == InitTableSpec /\ [][NextTable]_vars

----------------------------------------------------------------------------
(* _combine_headers step by step, on the header rows parse_table hands over *)

\* the largest number of header cells of a table
MaxHdrCells == 4

\* The texts of the header cells: "", "Move", "move", "1", "2" and
\* "[[[1]1]1]".
HeaderTexts ==
    { <<>>, sMove, <<109,111,118,101>>, <<49>>, <<50>>,
      <<91,91,91,49,93,49,93,49,93>> }

\* the value parse_table keeps for a cell of text t: clean_text(value) of
\* the cell_text _parse_row has stored
HeaderValue(t) == clean_text(cell_text(PlainCell("th", t)))

RECURSIVE CellCount(_)
CellCount(rows) == IF rows = <<>> THEN 0 ELSE Len(rows[1]) + CellCount(Tail(rows))

InitHdr ==
    /\ hpc = "rows"
    /\ hrows = <<>>
    /\ hnext = 0
    /\ combined = <<>>
    /\ hlast = <<>>

InitHdrSpec == WalkOff /\ TableOff /\ InitHdr /\ RestOff

\* a header row begins with a cell of value v
HeaderRowBegun(v) ==
    /\ hrows' = Append(hrows, <<v>>)
    /\ UNCHANGED <<hpc, hnext, combined, hlast>>

\* the last header row gets one more cell, of value v
HeaderRowGrown(v) ==
    /\ hrows' = [hrows EXCEPT ![Len(hrows)] = Append(@, v)]
    /\ UNCHANGED <<hpc, hnext, combined, hlast>>

\* parse_table retains a header row that has a value
HeaderRow ==
    /\ hpc = "rows"
    /\ CellCount(hrows) < MaxHdrCells
    /\ hrows # <<>> => AnyValue(hrows[Len(hrows)])
    /\ \E t \in HeaderTexts : HeaderRowBegun(HeaderValue(t))
    /\ UNCHANGED walkVars
    /\ UNCHANGED <<tableVars, restVars>>

HeaderCell ==
    /\ hpc = "rows"
    /\ CellCount(hrows) < MaxHdrCells
    /\ hrows # <<>>
    /\ \E t \in HeaderTexts : HeaderRowGrown(HeaderValue(t))
    /\ UNCHANGED walkVars
    /\ UNCHANGED <<tableVars, restVars>>

\* _combine_headers(header_rows) up to `combined = normalized[0]`, or its
\* return of [] when there is no header row
Combine ==
    /\ hpc = "rows"
    /\ hrows # <<>> => AnyValue(hrows[Len(hrows)])
    /\ hpc' = IF hrows = <<>> THEN "done" ELSE "merge"
    /\ combined' = IF hrows = <<>> THEN <<>> ELSE Normalized(hrows)[1]
    /\ hnext' = 2
    /\ UNCHANGED <<hrows, hlast>>
    /\ UNCHANGED walkVars
    /\ UNCHANGED <<tableVars, restVars>>

\* one iteration of `for row in normalized[1:]`
Merge ==
    /\ hpc = "merge"
    /\ hnext <= Len(hrows)
    /\ hlast' = Normalized(hrows)[hnext]
    /\ combined' = MergeRow(combined, Normalized(hrows)[hnext])
    /\ hnext' = hnext + 1
    /\ UNCHANGED <<hpc, hrows>>
    /\ UNCHANGED walkVars
    /\ UNCHANGED <<tableVars, restVars>>

\* the return of _combine_headers
Combined ==
    /\ hpc = "merge"
    /\ hnext > Len(hrows)
    /\ combined' = FillEmpty(combined)
    /\ hpc' = "done"
    /\ UNCHANGED <<hrows, hnext, hlast>>
    /\ UNCHANGED walkVars
    /\ UNCHANGED <<tableVars, restVars>>

NextHdr ==
    \/ HeaderRow
    \/ HeaderCell
    \/ Combine
    \/ Merge
    \/ Combined

SpecHdr == InitHdrSpec /\ [][NextHdr]_vars

----------------------------------------------------------------------------
(* Properties of extract_sections *)

\* the step just taken has handled the child element'
Visited == pc = "walk" /\ nElems' = nElems + 1

\* the level a tag name h2..h5 stands for
LevelOfName(name) == CHOOSE n \in 2..5 : name = <<"h2", "h3", "h4", "h5">>[n - 1]

\* the titles of a stack, outermost first
TitlesOf(stk) == [i \in 1..Len(stk) |-> stk[i].title]

\* the entries of secs that are new or changed in secs2
Touched(secs, secs2) == secs2 \ secs

KeysUnique(secs) == \A a, b \in secs : a.path = b.path => a = b

\* C1: a heading h2-h5 of level L with a non-empty normalized title removes
\* every stack entry of level >= L and then pushes (L, title); and a table
\* that is stored is stored under the titles of the stack, outermost first,
\* as the stack is when the table is met.
C1_HeadingClosesThenPushes ==
    [][ /\ ( /\ Visited
             /\ ~element'.string
             /\ element'.name \in {"h2", "h3", "h4", "h5"}
             /\ _normalize_heading(element') # <<>> )
           => stack' = SelectSeq(stack, LAMBDA x : x.level < LevelOfName(element'.name))
                       \o << [level |-> LevelOfName(element'.name),
                              title |-> _normalize_heading(element')] >>
        /\ (Visited /\ sections' # sections)
           => /\ element'.name = "table"
              /\ \A s \in Touched(sections, sections') : s.path = TitlesOf(stack)
      ]_vars

\* after H2 Pokémon, H3 Red and Blue, H4 Gym Leaders and a table, the H3 Blue
\* has closed the H3 and the H4 and kept the H2
C1_Witness ==
    /\ nElems = 5
    /\ element = Tag("h3", << sBlue >>)
    /\ stack = << [level |-> 2, title |-> sPokemon], [level |-> 3, title |-> sBlue] >>
    /\ \E s \in sections : s.path = << sPokemon, sRedAndBlue, sGymLeaders >>

\* C2: a table changes the sections only when the stack holds an entry of
\* level <= 2 whose lowercased title contains "pokémon"; a table met with an
\* empty stack changes nothing and raises nothing.
C2_OnlyUnderPokemonHeading ==
    [][ /\ (Visited /\ sections' # sections)
           => \E i \in 1..Len(stack) :
                 /\ stack[i].level <= 2
                 /\ Contains(Lower(stack[i].title), <<112,111,107,233,109,111,110>>)
        /\ (Visited /\ element'.name = "table" /\ stack = <<>>)
           => /\ sections' = sections
              /\ order' = order
              /\ pc' = "walk"
      ]_vars

\* the roster table met before any heading, and the walk goes on
C2_Witness ==
    /\ pc = "walk"
    /\ nElems = 1
    /\ element = TableTag(tblRoster)
    /\ stack = <<>>
    /\ sections = {}

\* a < b for two strings, by code point; a < b for two paths, by title
CodeLess(a, b) ==
    \E k \in 1..Len(b) :
        /\ \A j \in 1..(k - 1) : j <= Len(a) /\ a[j] = b[j]
        /\ k > Len(a) \/ a[k] < b[k]

PathLess(p, q) ==
    \E k \in 1..Len(q) :
        /\ \A j \in 1..(k - 1) : j <= Len(p) /\ p[j] = q[j]
        /\ k > Len(p) \/ CodeLess(p[k], q[k])

\* C3: the returned list is in strictly increasing lexicographic order of
\* the paths, and holds exactly the sections found, each once: the order is
\* a function of the set of paths, not of the order of discovery.
C3_OutputSortedByPath ==
    pc = "done" =>
        /\ \A i \in 1..(Len(output) - 1) : PathLess(output[i].path, output[i + 1].path)
        /\ {output[i] : i \in 1..Len(output)} = sections
        /\ Len(output) = Cardinality(sections)

\* two sections returned in the order opposite to their discovery
C3_Witness ==
    /\ pc = "done"
    /\ Len(output) = 2
    /\ order = << output[2].path, output[1].path >>

\* C4: a table that is stored is appended to the one entry of its path, the
\* entry is created when the path is new, no other entry changes and none
\* is ever lost; the returned list holds these entries.
C4_OneEntryPerPath ==
    /\ [][ Visited =>
             /\ \A s \in sections : \E s2 \in sections' :
                   /\ s2.path = s.path
                   /\ s2 = s \/ (Len(s2.tables) = Len(s.tables) + 1
                                 /\ SubSeq(s2.tables, 1, Len(s.tables)) = s.tables)
             /\ Cardinality(Touched(sections, sections')) <= 1
             /\ \A s2 \in Touched(sections, sections') :
                   /\ s2.tables[Len(s2.tables)] = parse_table(element'.table[1]).table[1]
                   /\ (\A s \in sections : s.path # s2.path) => Len(s2.tables) = 1
         ]_vars
    /\ [](KeysUnique(sections))
    /\ [](pc = "done" => {output[i] : i \in 1..Len(output)} = sections)

\* H2 Pokémon, roster, H3 Blue, roster, H2 Pokémon, moves: the two tables of
\* the path (Pokémon) are in one entry, in document order
C4_Witness ==
    /\ nElems = 6
    /\ element = TableTag(tblMoves)
    /\ stack = << [level |-> 2, title |-> sPokemon] >>
    /\ sections = { [path |-> << sPokemon >>,
                     tables |-> << parse_table(tblRoster).table[1],
                                   parse_table(tblMoves).table[1] >>],
                    [path |-> << sPokemon, sBlue >>,
                     tables |-> << parse_table(tblRoster).table[1] >>] }

----------------------------------------------------------------------------
(* Properties of parse_table and _parse_row *)

\* the step just taken has placed the cell last_cell'
CellPlaced == tpc \in {"rows", "cells"} /\ nCells' = nCells + 1 /\ tpc' = "cells"

Returned_Table == tpc = "done" /\ result # <<>>

\* the longest of the retained header and data rows
LongestRow == MaxLen(header_rows \o data_rows)

\* "Column i" for i < 10
Placeholder(i) == <<67,111,108,117,109,110,32>> \o << 48 + i >>

\* the value of data row d in column j of a grid of the table's width
Padded(d, j) == IF j <= Len(d) THEN d[j] ELSE <<>>

\* C5: a returned table has as many column labels as its longest retained
\* row (header rows merge to the longest of them), and every record is a
\* data row padded with "" to that width: it has a value for every label,
\* the one of the last column of that label.
C5_GridRectangular ==
    Returned_Table =>
        /\ Len(result[1].columns) = LongestRow
        /\ \A k \in 1..Len(result[1].rows) :
              /\ DOMAIN result[1].rows[k] = {result[1].columns[j] : j \in 1..LongestRow}
              /\ \E d \in 1..Len(data_rows) :
                    \A j \in 1..LongestRow :
                       (\A j2 \in (j + 1)..LongestRow :
                            result[1].columns[j2] # result[1].columns[j])
                       => result[1].rows[k][result[1].columns[j]] = Padded(data_rows[d], j)

\* a data row shorter than the header, padded in its record
C5_Witness ==
    /\ Returned_Table
    /\ Len(result[1].columns) = 2
    /\ Len(data_rows) = 1
    /\ Len(data_rows[1]) = 1
    /\ result[1].rows[1][result[1].columns[2]] = <<>>

\* C6 (as claimed, for tables whose cells all have a colspan >= 1): a cell
\* with rowspan r placed at column c shows its value in column c of the next
\* r - 1 rows too, unless a cell of that row occupies the column.
C6_RowspanFillsItsColumn ==
    (\A q \in placed : q.colspan >= 1) =>
        \A p \in placed : \A k \in 1..(p.rowspan - 1) :
            (p.row + k <= Len(grid)) =>
                \/ /\ p.col + 1 \in 1..Len(grid[p.row + k])
                   /\ grid[p.row + k][p.col + 1] = p.text
                \/ \E q \in placed :
                      q.row = p.row + k /\ q.col <= p.col /\ p.col < q.col + q.colspan

\* C7 (as claimed, for a colspan c >= 1): the cell's value is written into
\* exactly c entries of the row, at the columns cursor .. cursor + c - 1, and
\* the cursor advances by c.
C7_ColspanWritesAtCursor ==
    [][ (CellPlaced /\ SpanAttr(last_cell'.colspan).val >= 1) =>
          /\ Len(row_values') = cell_at'.len + SpanAttr(last_cell'.colspan).val
          /\ \A i \in 1..SpanAttr(last_cell'.colspan).val :
                /\ cell_at'.col + i \in (cell_at'.len + 1)..Len(row_values')
                /\ row_values'[cell_at'.col + i] = cell_text(last_cell')
          /\ col_idx' = cell_at'.col + SpanAttr(last_cell'.colspan).val
      ]_vars

\* an attribute that is missing, empty or "0"
MissingEmptyOrZero(attr) == ~attr.present \/ attr.value = <<>> \/ attr.value = <<48>>

\* C8 (as claimed): a missing, empty or zero colspan makes the cell occupy
\* one column, and a missing, empty or zero rowspan one row (no span is
\* registered for a later row).
C8_ZeroOrMissingSpanIsOne ==
    [][ CellPlaced =>
          /\ MissingEmptyOrZero(last_cell'.colspan)
             => /\ Len(row_values') = cell_at'.len + 1
                /\ col_idx' = cell_at'.col + 1
          /\ MissingEmptyOrZero(last_cell'.rowspan)
             => \A e \in span_map' : e.col >= cell_at'.col => e \in span_map
      ]_vars

\* C10: no column label of a returned table is empty; a column that is empty
\* (or missing) in every header row is labelled "Column i"; a single header
\* row keeps its non-empty labels as they are; without header row every
\* column of the data rows' width has its placeholder.
C10_NoEmptyColumnLabel ==
    Returned_Table =>
        /\ \A i \in 1..Len(result[1].columns) : result[1].columns[i] # <<>>
        /\ \A i \in 1..Len(result[1].columns) :
              (\A h \in 1..Len(header_rows) : Padded(header_rows[h], i) = <<>>)
              => result[1].columns[i] = Placeholder(i)
        /\ Len(header_rows) = 1
           => /\ Len(result[1].columns) >= Len(header_rows[1])
              /\ \A i \in 1..Len(header_rows[1]) :
                    header_rows[1][i] # <<>> => result[1].columns[i] = header_rows[1][i]
        /\ header_rows = <<>>
           => result[1].columns = [i \in 1..MaxLen(data_rows) |-> Placeholder(i)]

\* <tr><th></th><th>H</th></tr><tr><td>A</td></tr>: the columns are
\* "Column 1" and "H"
C10_Witness ==
    /\ Returned_Table
    /\ header_rows = << << <<>>, <<72>> >> >>
    /\ result[1].columns = << Placeholder(1), <<72>> >>

----------------------------------------------------------------------------
(* Properties of _combine_headers *)

\* the step just taken has merged the row hlast' into combined
Merged == hpc = "merge" /\ hnext' = hnext + 1

\* new is a substring of running, letter case apart
InIgnoringCase(new, running) ==
    \E k \in 0..(Len(running) - Len(new)) :
        \A j \in 1..Len(new) : LowerChar(new[j]) = LowerChar(running[k + j])

\* the merge of a running value and a new value
MergedValue(running, new) ==
    IF running # <<>> /\ new # <<>> /\ ~InIgnoringCase(new, running)
    THEN running \o <<32,45,32>> \o new
    ELSE IF new # <<>> THEN new ELSE running

\* C9: the merge starts from the first row, padded to the width of the
\* longest row, and each later row is merged position by position; the running
\* value and the new value are both normalised with clean_text first, and
\* then: both non-empty and the new one not a case-insensitive substring of
\* the running one gives "{running} - {new}", otherwise the new value when
\* it is non-empty and else the running value.
C9_MergeOfCleanedValues ==
    [][ /\ (hpc = "rows" /\ hpc' = "merge")
           => combined' = PadTo(hrows[1], MaxLen(hrows))
        /\ Merged
           => /\ Len(combined') = Len(combined)
              /\ \A i \in 1..Len(combined) :
                    combined'[i] = MergedValue(clean_text(combined[i]), clean_text(hlast'[i]))
      ]_vars

\* ["Move", "Move"] with ["1", "2"] has given ["Move - 1", "Move - 2"]
C9_Witness ==
    /\ hpc = "done"
    /\ hrows = << <<sMove, sMove>>, << <<49>>, <<50>> >> >>
    /\ combined = << sMove \o <<32,45,32,49>>, sMove \o <<32,45,32,50>> >>

\* C9 as claimed: the rule applies to the running value and the new row's
\* value as they are in the rows.
C9_MergeOfValues ==
    [][ Merged
        => \A i \in 1..Len(combined) :
              combined'[i] = MergedValue(combined[i], hlast'[i])
      ]_vars

----------------------------------------------------------------------------
(* Properties of the produced structure *)

\* the record has a value that is not ""
HasValue(record) == \E l \in DOMAIN record : record[l] # <<>>

\* the table has a record, and each of its records a value
NoEmptyTable(table) ==
    /\ table.rows # <<>>
    /\ \A k \in 1..Len(table.rows) : HasValue(table.rows[k])

\* the section has a table, and none of its tables is empty
NoEmptySection(sec) ==
    /\ sec.tables # <<>>
    /\ \A k \in 1..Len(sec.tables) : NoEmptyTable(sec.tables[k])

\* C11: at every moment of the walk every section collected has a table,
\* every table a record, and every record a value that is not "" (so a row
\* whose cells are all empty is no record); the list returned, and what
\* scrape_trainer keeps of it, is made of such sections only.
C11_NoEmptyUnit ==
    /\ \A sec \in sections : NoEmptySection(sec)
    /\ \A i \in 1..Len(output) : NoEmptySection(output[i])
    /\ Emitted(output) = output

\* the table with a data row of blanks has been returned in a section: it
\* has the one record of its other data row
C11_Witness ==
    /\ pc = "done"
    /\ element = TableTag(tblMoves)
    /\ \E i \in 1..Len(output) :
          /\ Len(output[i].tables) = 1
          /\ output[i].tables[1].title = << sBlue >>
          /\ Len(output[i].tables[1].rows) = 1
          /\ Len(tblMoves.rows) = 3

----------------------------------------------------------------------------
(* Properties of the records *)

\* the last column that carries the label
LastColumnOf(columns, label) ==
    CHOOSE i \in 1..Len(columns) :
        /\ columns[i] = label
        /\ \A j \in (i + 1)..Len(columns) : columns[j] # label

\* the pairs (columns[i], value i of the row) for every i below the width,
\* a later pair replacing an earlier one of the same label
PairsOf(columns, row) ==
    [l \in {columns[i] : i \in 1..Len(columns)} |-> Padded(row, LastColumnOf(columns, l))]

\* C12: whatever the widths of the header and data rows, the records of a
\* returned table are, in order, the pairings of the column labels with the
\* values of the data rows that have a value in them; of two columns with one
\* label the later one gives the value. Data rows without any header row
\* always give a table.
C12_RecordsPairLabelsAndValues ==
    /\ tpc = "done" /\ header_rows = <<>> /\ data_rows # <<>> => result # <<>>
    /\ Returned_Table
       => result[1].rows =
             SelectSeq([k \in 1..Len(data_rows) |->
                           PairsOf(result[1].columns, data_rows[k])],
                       HasValue)

\* <tr><th colspan="2">H</th></tr><tr><td>A</td><td rowspan="3">B</td></tr>:
\* both columns are labelled H and the record has B, the second value
C12_Witness ==
    /\ Returned_Table
    /\ result[1].columns = << <<72>>, <<72>> >>
    /\ data_rows = << << <<65>>, <<66>> >> >>
    /\ result[1].rows = << [l \in { <<72>> } |-> <<66>>] >>

----------------------------------------------------------------------------
(* Properties of the failures *)

\* C13 (as claimed): neither the walk of extract_sections nor parse_table with
\* _parse_row ever ends by an exception, whatever the tables hold.
C13_NeverRaises == pc # "raised" /\ tpc # "raised"

----------------------------------------------------------------------------
(* main of bulbapedia_scraper.py: the loop over the trainers *)

\* the number of names in the PokemonDB list
MaxTrainers == 3

\* the names "A", "B", ...
TrainerName(i) == << 64 + i >>

\* load_trainer_names: sorted(names), names being a set
all_trainers == [i \in 1..MaxTrainers |-> TrainerName(i)]

\* the elements of seq whose index is in keep, in the order of seq
RECURSIVE Filtered(_, _, _)
Filtered(seq, keep, i) ==
    IF i > Len(seq) THEN <<>>
    ELSE (IF i \in keep THEN << seq[i] >> ELSE <<>>) \o Filtered(seq, keep, i + 1)

\* lines 489-499: the names of --trainer, in the order of all_trainers, cut
\* to --max-trainers
Selected(requested, max_trainers) ==
    SubSeq(Filtered(all_trainers, requested, 1), 1,
           Max(0, IF max_trainers < Cardinality(requested)
                  THEN max_trainers ELSE Cardinality(requested)))

\* What scrape_trainer does for one trainer: it returns its output, raises
\* BulbapediaError (no page, request failure), or raises another exception
\* (ValueError of int() in _parse_row).
ScrapeOutcomes ==
    { [kind |-> "return", value |-> "sections"],
      [kind |-> "BulbapediaError", value |-> "No Bulbapedia page found"],
      [kind |-> "Exception", value |-> "invalid literal for int()"] }

\* d[k] = v on a dict
Put(d, k, v) == [x \in DOMAIN d \cup {k} |-> IF x = k THEN v ELSE d[x]]

\* str(exc), or f"Unexpected error: {exc}"
Reason(outcome) ==
    IF outcome.kind = "BulbapediaError" THEN << "", outcome.value >>
    ELSE << "Unexpected error: ", outcome.value >>

\* the loop leaving at the first failure
IndexAfterLeaving(outcome, i, n) == IF outcome.kind = "return" THEN i + 1 ELSE n

\* the for loop goes on with the next trainer, whatever the outcome
IndexAfter(outcome, i, n) == i + 1

InitMain ==
    /\ mpc = "start"
    /\ trainers = <<>>
    /\ index = 0
    /\ results = <<>>
    /\ failures = <<>>
    /\ exit_code = <<>>

InitMainSpec == WalkOff /\ TableOff /\ HdrOff /\ InitMain /\ DbOff /\ ScrapeOff /\ PairOff /\ FetchOff

\* lines 483-487: the PokemonDB file is missing
NotFound ==
    /\ mpc = "start"
    /\ mpc' = "returned"
    /\ exit_code' = << 1 >>
    /\ UNCHANGED <<trainers, index, results, failures>>
    /\ UNCHANGED <<walkVars, tableVars, hdrVars, dbVars, scrapeVars, pairVars, fetchVars>>

\* lines 484-504
Load ==
    /\ mpc = "start"
    /\ mpc' = "loop"
    /\ \E requested \in SUBSET (1..MaxTrainers), max_trainers \in 0..MaxTrainers :
          trainers' = Selected(requested, max_trainers)
    /\ UNCHANGED <<index, results, failures, exit_code>>
    /\ UNCHANGED <<walkVars, tableVars, hdrVars, dbVars, scrapeVars, pairVars, fetchVars>>

\* lines 507-514 for the trainer of name `name`
Handled(name, outcome) ==
    /\ results' = IF outcome.kind = "return" THEN Put(results, name, outcome.value)
                  ELSE results
    /\ failures' = IF outcome.kind = "return" THEN failures
                   ELSE Put(failures, name, Reason(outcome))
    /\ index' = IndexAfter(outcome, index, Len(trainers))

\* one iteration of the loop
Scrape ==
    /\ mpc = "loop"
    /\ index < Len(trainers)
    /\ \E outcome \in ScrapeOutcomes : Handled(trainers[index + 1], outcome)
    /\ UNCHANGED <<mpc, trainers, exit_code>>
    /\ UNCHANGED <<walkVars, tableVars, hdrVars, dbVars, scrapeVars, pairVars, fetchVars>>

\* lines 516-535: the payload is written and main returns
Written ==
    /\ mpc = "loop"
    /\ index >= Len(trainers)
    /\ mpc' = "returned"
    /\ exit_code' = << IF failures = <<>> THEN 0 ELSE 2 >>
    /\ UNCHANGED <<trainers, index, results, failures>>
    /\ UNCHANGED <<walkVars, tableVars, hdrVars, dbVars, scrapeVars, pairVars, fetchVars>>

\* lines 527-530: the output file cannot be written, main ends by OSError
NotWritten ==
    /\ mpc = "loop"
    /\ index >= Len(trainers)
    /\ mpc' = "raised"
    /\ UNCHANGED <<trainers, index, results, failures, exit_code>>
    /\ UNCHANGED <<walkVars, tableVars, hdrVars, dbVars, scrapeVars, pairVars, fetchVars>>

NextMain ==
    \/ NotFound
    \/ Load
    \/ Scrape
    \/ Written
    \/ NotWritten

SpecMain == InitMainSpec /\ [][NextMain]_vars

----------------------------------------------------------------------------
(* Properties of main *)

\* the names of the first n trainers
Names(n) == {trainers[i] : i \in 1..n}

\* C14: the loop handles the trainers one by one, in order: each step puts
\* the next trainer into results (with its output) or into failures (with a
\* reason) and touches no other entry; so every trainer handled is in
\* exactly one of the two, a failure does not keep the loop from the later
\* trainers, main returns from the loop only when all are handled, and then
\* with 0 when failures is empty and with 2 otherwise.
C14_EveryTrainerOnce ==
    /\ [](/\ DOMAIN results \cup DOMAIN failures = Names(index)
          /\ DOMAIN results \cap DOMAIN failures = {}
          /\ \A i, j \in 1..Len(trainers) : trainers[i] = trainers[j] => i = j
          /\ \A n \in DOMAIN failures : failures[n][2] # "")
    /\ [](mpc \in {"returned", "raised"} /\ exit_code # << 1 >>
          => /\ index = Len(trainers)
             /\ mpc = "returned" => exit_code = << IF DOMAIN failures = {} THEN 0 ELSE 2 >>)
    /\ [][ mpc = "loop" /\ index' # index
           => /\ index' = index + 1
              /\ \A n \in Names(index) :
                    /\ n \in DOMAIN results => n \in DOMAIN results' /\ results'[n] = results[n]
                    /\ n \in DOMAIN failures => n \in DOMAIN failures' /\ failures'[n] = failures[n]
       ]_vars

\* three trainers, the first failed and the others scraped: main returns 2
C14_Witness ==
    /\ mpc = "returned"
    /\ Len(trainers) = 3
    /\ DOMAIN failures = {trainers[1]}
    /\ DOMAIN results = {trainers[2], trainers[3]}
    /\ exit_code = << 2 >>

----------------------------------------------------------------------------
(* scrape_trainer_data of pokemondb_scraper.py: the loop over the games *)

\* the number of known games
MaxGames == 4

\* the entries of KNOWN_GAMES as get_game_links lists them: the games "G1",
\* "G2", ... with the urls "/G1", "/G2", ...
KnownLinks ==
    [i \in 1..MaxGames |-> [game_name |-> << 71, 48 + i >>, url |-> << 47, 71, 48 + i >>]]

\* get_game_links(game_filter): the known games the filter keeps, in order
get_game_links(desired) == Filtered(KnownLinks, desired, 1)

\* session.get(url) with raise_for_status(): the page, or a
\* requests.RequestException
DownloadOutcomes ==
    { [kind |-> "return", value |-> "html"],
      [kind |-> "RequestException", value |-> "503 Server Error"] }

\* the values of the parameter delay: none, or one second
Delays == {0, 1}

InitDb ==
    /\ dpc = "start"
    /\ game_links = <<>>
    /\ dnext = 0
    /\ game_results = <<>>
    /\ printed = <<>>
    /\ delay \in Delays
    /\ network = <<>>

InitDbSpec == WalkOff /\ TableOff /\ HdrOff /\ MainOff /\ InitDb /\ ScrapeOff /\ PairOff /\ FetchOff

\* lines 443-449
Links(links) ==
    /\ game_links' = links
    /\ dpc' = IF links = <<>> THEN "returned" ELSE "loop"
    /\ printed' = IF links = <<>> THEN << << "No matching games found." >> >> ELSE printed
    /\ UNCHANGED <<dnext, game_results, delay, network>>

GameLinks ==
    /\ dpc = "start"
    /\ \E desired \in SUBSET (1..MaxGames) : Links(get_game_links(desired))
    /\ UNCHANGED <<walkVars, tableVars, hdrVars, mainVars, scrapeVars, pairVars, fetchVars>>

\* lines 451-461 for one game link
Fetched(link, outcome) ==
    /\ printed' = printed
                  \o << << "Fetching trainer data for ", link.game_name >> >>
                  \o (IF outcome.kind = "return" THEN <<>>
                      ELSE << << "  Failed to download ", link.url, outcome.value >> >>)
    /\ game_results' = IF outcome.kind = "return"
                       THEN Put(game_results, link.game_name,
                                [source |-> link.url, sections |-> "sections"])
                       ELSE game_results
    /\ dnext' = dnext + 1
    /\ network' = network
                  \o << [call |-> "get", url |-> link.url] >>
                  \o (IF outcome.kind = "return" /\ delay # 0
                      THEN << [call |-> "sleep", seconds |-> delay] >>
                      ELSE <<>>)

\* one iteration of the loop
Fetch ==
    /\ dpc = "loop"
    /\ dnext < Len(game_links)
    /\ \E outcome \in DownloadOutcomes : Fetched(game_links[dnext + 1], outcome)
    /\ UNCHANGED <<dpc, game_links, delay>>
    /\ UNCHANGED <<walkVars, tableVars, hdrVars, mainVars, scrapeVars, pairVars, fetchVars>>

\* line 462
ReturnResults ==
    /\ dpc = "loop"
    /\ dnext >= Len(game_links)
    /\ dpc' = "returned"
    /\ UNCHANGED <<game_links, dnext, game_results, printed, delay, network>>
    /\ UNCHANGED <<walkVars, tableVars, hdrVars, mainVars, scrapeVars, pairVars, fetchVars>>

NextDb ==
    \/ GameLinks
    \/ Fetch
    \/ ReturnResults

SpecDb == InitDbSpec /\ [][NextDb]_vars

----------------------------------------------------------------------------
(* Properties of scrape_trainer_data *)

\* C15 (as claimed): the loop handles every game of the filtered list, and
\* what the run returns has an entry for each of them: the output of a game
\* downloaded, the reason of a game whose download failed.
C15_EveryGameAccounted ==
    dpc = "returned"
    => /\ dnext = Len(game_links)
       /\ \A i \in 1..Len(game_links) : game_links[i].game_name \in DOMAIN game_results

\* C21 (as claimed): with a positive delay, between any two consecutive page
\* requests, also when the earlier one failed, the loop sleeps for at least
\* delay seconds.
C21_PauseBetweenRequests ==
    delay > 0
    => \A i \in 1..(Len(network) - 1) :
          network[i].call = "get"
          => /\ network[i + 1].call = "sleep"
             /\ network[i + 1].seconds >= delay

----------------------------------------------------------------------------
(* PokemonTrainerScraper.scrape of pokemon_trainer_scraper.py *)

\* the largest number of game links on the index page
MaxIndexGames == 4

\* _fetch_games: the n links of the index page, under unique names: the
\* games "G1", "G2", ... with the urls "/G1", "/G2", ...
IndexLinks(n) ==
    [i \in 1..n |-> [game_name |-> << 71, 48 + i >>, url |-> << 47, 71, 48 + i >>]]

\* What _scrape_game does for one url: it returns the categories found,
\* returns {} when no category has data, or raises: HTTPError of
\* raise_for_status, RuntimeError when the page has no article.
GameOutcomes ==
    { [kind |-> "return", value |-> << "gym_leaders" >>],
      [kind |-> "return", value |-> <<>>],
      [kind |-> "HTTPError", value |-> <<>>],
      [kind |-> "RuntimeError", value |-> <<>>] }

InitScrape ==
    /\ spc = "start"
    /\ games = <<>>
    /\ snext = 0
    /\ scraped = <<>>

InitScrapeSpec == WalkOff /\ TableOff /\ HdrOff /\ MainOff /\ DbOff /\ InitScrape /\ PairOff /\ FetchOff

\* lines 55-56: the index page gives n links
FetchGames ==
    /\ spc = "start"
    /\ spc' = "loop"
    /\ \E n \in 1..MaxIndexGames : games' = IndexLinks(n)
    /\ UNCHANGED <<snext, scraped>>
    /\ UNCHANGED <<walkVars, tableVars, hdrVars, mainVars, dbVars, pairVars, fetchVars>>

\* lines 64-66, 79-82: the index page cannot be fetched or has no link
FetchGamesRaised ==
    /\ spc = "start"
    /\ spc' = "raised"
    /\ UNCHANGED <<games, snext, scraped>>
    /\ UNCHANGED <<walkVars, tableVars, hdrVars, mainVars, dbVars, pairVars, fetchVars>>

\* lines 58-61 for one game: an exception of _scrape_game is not caught
Scraped(game, outcome) ==
    /\ spc' = IF outcome.kind = "return" THEN "loop" ELSE "raised"
    /\ scraped' = IF outcome.kind = "return" /\ outcome.value # <<>>
                  THEN Put(scraped, game.game_name, outcome.value)
                  ELSE scraped
    /\ snext' = IF outcome.kind = "return" THEN snext + 1 ELSE snext

\* one iteration of the loop
ScrapeGame ==
    /\ spc = "loop"
    /\ snext < Len(games)
    /\ \E outcome \in GameOutcomes : Scraped(games[snext + 1], outcome)
    /\ UNCHANGED games
    /\ UNCHANGED <<walkVars, tableVars, hdrVars, mainVars, dbVars, pairVars, fetchVars>>

\* line 62
ReturnScraped ==
    /\ spc = "loop"
    /\ snext >= Len(games)
    /\ spc' = "returned"
    /\ UNCHANGED <<games, snext, scraped>>
    /\ UNCHANGED <<walkVars, tableVars, hdrVars, mainVars, dbVars, pairVars, fetchVars>>

NextScrape ==
    \/ FetchGames
    \/ FetchGamesRaised
    \/ ScrapeGame
    \/ ReturnScraped

SpecScrape == InitScrapeSpec /\ [][NextScrape]_vars

----------------------------------------------------------------------------
(* Properties of PokemonTrainerScraper.scrape *)

\* C16 (as claimed): once the index has given its games, scrape does not end
\* before every game has been handled, and it ends by returning the results.
C16_NeverStopsAtFirstFailure ==
    (games # <<>> /\ spc \in {"returned", "raised"})
    => (spc = "returned" /\ snext = Len(games))

----------------------------------------------------------------------------
(* extract_sections end to end *)

\* the walk has ended on the page <h2>Pokémon</h2><h3>Blue</h3> followed by
\* the table of the header row (Pokémon, Level) and the data row (Pidgey, 7)
RosterPageWalked ==
    /\ pc = "done"
    /\ nElems = 3
    /\ element = TableTag(tblRoster)
    /\ stack = << [level |-> 2, title |-> sPokemon], [level |-> 3, title |-> sBlue] >>

\* the record {"Pokémon": "Pidgey", "Level": "7"}
PidgeyRecord == [l \in {sPokemon, sLevel} |-> IF l = sPokemon THEN sPidgey ELSE <<55>>]

\* C17: that page yields exactly one group, of path ["Pokémon", "Blue"],
\* holding one table with the columns ["Pokémon", "Level"] and the single
\* record {"Pokémon": "Pidgey", "Level": "7"}.
C17_RosterPage ==
    RosterPageWalked
    => /\ Len(output) = 1
       /\ output[1].path = << sPokemon, sBlue >>
       /\ Len(output[1].tables) = 1
       /\ output[1].tables[1].columns = << sPokemon, sLevel >>
       /\ output[1].tables[1].rows = << PidgeyRecord >>

C17_Witness == RosterPageWalked /\ output # <<>>

----------------------------------------------------------------------------
(* Concurrent invocations of extract_sections, each on a page of its own *)

\* the invocations
Invocations == {1, 2}

\* the largest number of children the invocations handle together
MaxPairElems == 4

\* the children of the pages
PairElements ==
    { Tag("h2", << sPokemon >>), Tag("h3", << sBlue >>),
      TableTag(tblRoster), TableTag(tblMoves) }

\* lines 367-368: the local variables of an invocation; page is the list of
\* the children it has handled
NewCall ==
    [pc |-> "walk", stack |-> <<>>, sections |-> {}, order |-> <<>>,
     output |-> <<>>, page |-> <<>>]

\* the heading stack with one list for all the invocations
StackOfShared(cs, i) == cs[1].stack

\* the heading stack an invocation works on: its own local list
StackOf(cs, i) == cs[i].stack

\* lines 391-396 in an invocation: t is what parse_table has returned
CallParsed(local, stk, t) ==
    IF t.raised THEN [local EXCEPT !.pc = "raised"]
    ELSE IF t.table = <<>> THEN local
    ELSE [local EXCEPT !.sections = AddTable(local.sections, Path(stk), t.table[1]),
                       !.order = AddKey(local.order, local.sections, Path(stk))]

\* the body of the loop, lines 371-396, for the child e of an invocation
\* whose heading stack is stk
CallBody(local, stk, e) ==
    IF e.string THEN local
    ELSE IF e.name \in HEADING_TAGS
    THEN [local EXCEPT !.stack = PushHeading(stk, HeadingLevel(e.name), _normalize_heading(e))]
    ELSE IF e.name # "table" THEN local
    ELSE IF stk = <<>> \/ ~PokemonGate(stk) \/ ~_is_team_table(e.table[1]) THEN local
    ELSE CallParsed(local, stk, parse_table(e.table[1]))

\* one child handled
CallStep(local, stk, e) == CallBody([local EXCEPT !.page = Append(local.page, e)], stk, e)

\* lines 398-399 in an invocation
CallReturn(local) ==
    [local EXCEPT !.pc = "done",
                  !.output = SectionList(local.sections, OrderedPaths(local.order))]

RECURSIVE PagesLen(_, _)
PagesLen(cs, ids) ==
    IF ids = {} THEN 0
    ELSE Len(cs[CHOOSE i \in ids : TRUE].page)
         + PagesLen(cs, ids \ {CHOOSE i \in ids : TRUE})

InitPair ==
    /\ calls = [i \in Invocations |-> NewCall]
    /\ schedule = <<>>

InitPairSpec == WalkOff /\ TableOff /\ HdrOff /\ MainOff /\ DbOff /\ ScrapeOff /\ InitPair /\ FetchOff

\* invocation i handles the next child of its page
CallVisit(i) ==
    /\ calls[i].pc = "walk"
    /\ PagesLen(calls, Invocations) < MaxPairElems
    /\ \E e \in PairElements :
          calls' = [calls EXCEPT ![i] = CallStep(calls[i], StackOf(calls, i), e)]
    /\ schedule' = Append(schedule, i)
    /\ UNCHANGED <<walkVars, tableVars, hdrVars, mainVars, dbVars, scrapeVars, fetchVars>>

\* invocation i has no child left and returns
CallDone(i) ==
    /\ calls[i].pc = "walk"
    /\ calls' = [calls EXCEPT ![i] = CallReturn(calls[i])]
    /\ schedule' = schedule
    /\ UNCHANGED <<walkVars, tableVars, hdrVars, mainVars, dbVars, scrapeVars, fetchVars>>

NextPair ==
    \/ \E i \in Invocations : CallVisit(i)
    \/ \E i \in Invocations : CallDone(i)

SpecPair == InitPairSpec /\ [][NextPair]_vars

----------------------------------------------------------------------------
(* Properties of concurrent invocations *)

\* the locals of an invocation that walks the children page[k..] alone
RECURSIVE WalkAlone(_, _, _)
WalkAlone(local, page, k) ==
    IF k > Len(page) \/ local.pc # "walk" THEN local
    ELSE WalkAlone(CallStep(local, local.stack, page[k]), page, k + 1)

\* what extract_sections returns for the page when it runs alone
ExtractAlone(page) == CallReturn(WalkAlone(NewCall, page, 1)).output

----------------------------------------------------------------------------
(* Properties of the pending spans *)

\* the row `row` has the value of the pending entry e at its column, and in
\* the map `after` its count is one less (the entry is gone at count 1)
Flushed(e, row, after) ==
    /\ e.col + 1 \in 1..Len(row)
    /\ row[e.col + 1] = e.text
    /\ IF e.remaining > 1
       THEN [e EXCEPT !.remaining = e.remaining - 1] \in after
       ELSE \A a \in after : a.col # e.col

\* C19 (as claimed): when a row is over, be it a tr without cells or a row
\* of cells, every entry that was pending when the row began has been written
\* into the row and its count decremented once.
C19_PendingSpansFlushedEachRow ==
    [][ /\ (tpc = "rows" /\ tpc' = "rows" /\ last_cell' = EmptyTr /\ last_cell # EmptyTr)
           => \A e \in span_map : Flushed(e, <<>>, span_map')
        /\ (tpc = "cells" /\ tpc' = "rows")
           => \A e \in row_spans : Flushed(e, row_values', span_map')
      ]_vars

----------------------------------------------------------------------------
(* What the walk leaves alone *)

\* a heading h2-h5 whose normalized title is not empty
TitledHeading(e) ==
    /\ ~e.string
    /\ e.name \in {"h2", "h3", "h4", "h5"}
    /\ _normalize_heading(e) # <<>>

\* C20: a step of the walk changes the heading stack only when the child
\* handled is a heading h2-h5 with a title; the heading "[edit]", whose title
\* is empty, changes nothing, and an element with a heading and a table
\* nested inside it changes neither the stack nor the sections.
C20_StackChangesOnTitledHeadingsOnly ==
    [][ /\ stack' # stack => (nElems' = nElems + 1 /\ TitledHeading(element'))
        /\ (nElems' = nElems + 1 /\ element' = Tag("h3", << sEdit >>))
           => (stack' = stack /\ sections' = sections)
        /\ (nElems' = nElems + 1 /\ (element'.name = "table" \/ element'.children # <<>>))
           => stack' = stack
        /\ (nElems' = nElems + 1 /\ element'.children # <<>>)
           => (sections' = sections /\ order' = order)
      ]_vars

\* the div with a heading and a roster nested inside it has been handled
\* under the headings Pokémon and Blue, which are still the stack, and no
\* section has been made
C20_Witness ==
    /\ element = divNested
    /\ stack = << [level |-> 2, title |-> sPokemon], [level |-> 3, title |-> sBlue] >>
    /\ sections = {}
    /\ nElems = 3

----------------------------------------------------------------------------
(* BulbapediaTrainerScraper._fetch_page and _search_alternative_title *)

DISALLOWED_TITLE_KEYWORDS ==
    << <<40,97,110,105,109,101,41>>,   \* "(anime)"
       <<40,109,97,110,103,97,41>>,   \* "(manga)"
       <<40,97,100,118,101,110,116,117,114,101,115,41>>,   \* "(adventures)"
       <<40,116,99,103,41>>,   \* "(tcg)"
       <<40,115,111,110,103,41>>,   \* "(song)"
       <<40,99,104,97,112,116,101,114,41>>,   \* "(chapter)"
       <<40,101,112,105,115,111,100,101,41>> >>   \* "(episode)"

PREFERRED_TITLE_KEYWORDS ==
    << <<40,103,97,109,101,41>>,   \* "(game)"
       <<40,116,114,97,105,110,101,114,41>>,   \* "(trainer)"
       <<40,99,111,114,101,32,115,101,114,105,101,115,41>>,   \* "(core series)"
       <<103,121,109,32,108,101,97,100,101,114>>,   \* "gym leader"
       <<116,114,105,97,108,32,99,97,112,116,97,105,110>>,   \* "trial captain"
       <<101,108,105,116,101,32,102,111,117,114>>,   \* "elite four"
       <<99,104,97,109,112,105,111,110>> >>   \* "champion"

\* any(keyword in lowered for keyword in keywords)
AnyKeyword(lowered, keywords) ==
    \E k \in 1..Len(keywords) : Contains(lowered, keywords[k])

_score_title(title) ==
    (IF ~Contains(title, << 40 >>) THEN 100 ELSE 0)
    + (IF AnyKeyword(Lower(title), PREFERRED_TITLE_KEYWORDS) THEN 60 ELSE 0)
    - (IF AnyKeyword(Lower(title), DISALLOWED_TITLE_KEYWORDS) THEN 200 ELSE 0)

\* (score, title) pairs as sorted compares them
ScoredLess(t, u) ==
    \/ _score_title(t) < _score_title(u)
    \/ _score_title(t) = _score_title(u) /\ StrLess(t, u)

\* sorted(((score, title) ...), reverse=True)[0][1]
BestTitle(candidates) ==
    CHOOSE t \in {candidates[i] : i \in 1..Len(candidates)} :
        \A i \in 1..Len(candidates) : ~ScoredLess(t, candidates[i])

\* the largest number of titles in the answer of a search
MaxCandidates == 2

tBlue == <<66,108,117,101>>                                 \* "Blue"
tBlueGame == <<66,108,117,101,32,40,103,97,109,101,41>>   \* "Blue (game)"
tBlueAnime == <<66,108,117,101,32,40,97,110,105,109,101,41>>   \* "Blue (anime)"
tRed == <<82,101,100>>                                     \* "Red"

\* the names _fetch_page is called with
FetchNames == { tBlue, tRed }

CandidateTitles == { tBlue, tBlueGame, tBlueAnime, <<>> }

RECURSIVE SeqsUpTo(_, _)
SeqsUpTo(S, n) ==
    IF n = 0 THEN { <<>> }
    ELSE SeqsUpTo(S, n - 1)
         \cup { Append(q, x) : q \in { r \in SeqsUpTo(S, n - 1) : Len(r) = n - 1 }, x \in S }

\* what _get gives: a requests.RequestException (connection, timeout,
\* raise_for_status), or a response whose body is not JSON, a JSON array or
\* a JSON object
RequestFailed == [kind |-> "RequestException"]
NotJson == [kind |-> "text"]
JsonList(items) == [kind |-> "list", items |-> items]
JsonDict(dict) == [kind |-> "dict", dict |-> dict]

\* the JSON objects of the answers to action=parse
ParseDicts ==
    { [error |-> "missingtitle"],
      [parse |-> [title |-> tBlue, displaytitle |-> tBlueGame, text |-> "html"]],
      [parse |-> [title |-> tBlue, text |-> "html"]],
      [parse |-> [title |-> tBlue, displaytitle |-> <<>>]],
      [parse |-> [text |-> "html"]],
      [parse |-> <<>>],
      <<>> }

ParseResponses ==
    { RequestFailed, NotJson, JsonList(<<>>) } \cup { JsonDict(d) : d \in ParseDicts }

\* the answers to action=opensearch: [query, [titles...]] and what else the
\* code provides for
SearchResponses ==
    { RequestFailed, NotJson, JsonList(<< tBlue >>), JsonDict([error |-> "badvalue"]) }
    \cup { JsonList(<< tBlue, c >>) : c \in SeqsUpTo(CandidateTitles, MaxCandidates) }

\* dict.get(key, default)
Get(dict, key, default) == IF key \in DOMAIN dict THEN dict[key] ELSE default

\* "error" in data
HasError(data) ==
    IF data.kind = "dict" THEN "error" \in DOMAIN data.dict
    ELSE \E i \in 1..Len(data.items) : data.items[i] = "error"

Raise(kind, message) == [kind |-> kind, message |-> message]

\* a or b, for strings and None (<<>> stands for both falsy values)
Or(a, b) == IF a # <<>> THEN a ELSE b

\* lines 184-199 once parse_data is there
Page(parse_data, name) ==
    [kind |-> "return",
     title |-> Or(Get(parse_data, "displaytitle", <<>>),
                  Or(Get(parse_data, "title", <<>>), name)),
     meta_title |-> Get(parse_data, "title", <<>>),
     html |-> Get(parse_data, "text", "")]

\* lines 181-199: data is the answer that carries no error
PageOf(data, name) ==
    IF data.kind # "dict"
    THEN Raise("AttributeError", "'list' object has no attribute 'get'")
    ELSE IF Get(data.dict, "parse", <<>>) = <<>>
    THEN Raise("BulbapediaError", "Unexpected response")
    ELSE Page(data.dict.parse, name)

InitFetch ==
    /\ fpc = "start"
    /\ fetch_name \in FetchNames
    /\ sent = <<>>
    /\ alt_title = <<>>
    /\ fetched = <<>>

InitFetchSpec ==
    WalkOff /\ TableOff /\ HdrOff /\ MainOff /\ DbOff /\ ScrapeOff /\ PairOff /\ InitFetch

\* _fetch_page ends with outcome
Ended(outcome) ==
    /\ fetched' = << outcome >>
    /\ fpc' = IF outcome.kind = "return" THEN "returned" ELSE "raised"

\* lines 164-169 and, without an error in the answer, 181-199
First(response) ==
    /\ sent' = Append(sent, [action |-> "parse", page |-> fetch_name,
                             response |-> response])
    /\ IF response.kind = "RequestException"
       THEN Ended(Raise("BulbapediaError", "Request failed"))
       ELSE IF response.kind = "text"
       THEN Ended(Raise("JSONDecodeError", "Expecting value"))
       ELSE IF HasError(response)
       THEN fpc' = "search" /\ UNCHANGED fetched
       ELSE Ended(PageOf(response, fetch_name))

FirstRequest ==
    /\ fpc = "start"
    /\ \E response \in ParseResponses : First(response)
    /\ UNCHANGED <<fetch_name, alt_title>>
    /\ UNCHANGED <<walkVars, tableVars, hdrVars, mainVars, dbVars, scrapeVars, pairVars>>

\* data[1] if isinstance(data, list) and len(data) >= 2 else []
Candidates(data) ==
    IF data.kind = "list" /\ Len(data.items) >= 2 THEN data.items[2] ELSE <<>>

\* lines 151-153 and 171-172: the title found, if there is a usable one
Found(candidates) ==
    IF candidates = <<>> \/ BestTitle(candidates) = <<>>
    THEN Ended(Raise("BulbapediaError", "No Bulbapedia page found")) /\ UNCHANGED alt_title
    ELSE alt_title' = << BestTitle(candidates) >> /\ fpc' = "alt" /\ UNCHANGED fetched

\* line 170: _search_alternative_title(name), lines 136-153
Search(response) ==
    /\ sent' = Append(sent, [action |-> "opensearch", search |-> fetch_name,
                             response |-> response])
    /\ IF response.kind = "RequestException"
       THEN Ended(Raise("BulbapediaError", "Search request failed")) /\ UNCHANGED alt_title
       ELSE IF response.kind = "text"
       THEN Ended(Raise("JSONDecodeError", "Expecting value")) /\ UNCHANGED alt_title
       ELSE Found(Candidates(response))

SearchRequest ==
    /\ fpc = "search"
    /\ \E response \in SearchResponses : Search(response)
    /\ UNCHANGED fetch_name
    /\ UNCHANGED <<walkVars, tableVars, hdrVars, mainVars, dbVars, scrapeVars, pairVars>>

\* lines 174-180 and 181-199
Alternative(response) ==
    /\ sent' = Append(sent, [action |-> "parse", page |-> alt_title[1],
                             response |-> response])
    /\ IF response.kind = "RequestException"
       THEN Ended(Raise("BulbapediaError", "Request failed"))
       ELSE IF response.kind = "text"
       THEN Ended(Raise("JSONDecodeError", "Expecting value"))
       ELSE IF HasError(response)
       THEN Ended(Raise("BulbapediaError", "Unable to parse Bulbapedia page"))
       ELSE Ended(PageOf(response, fetch_name))

AltRequest ==
    /\ fpc = "alt"
    /\ \E response \in ParseResponses : Alternative(response)
    /\ UNCHANGED <<fetch_name, alt_title>>
    /\ UNCHANGED <<walkVars, tableVars, hdrVars, mainVars, dbVars, scrapeVars, pairVars>>

NextFetch ==
    \/ FirstRequest
    \/ SearchRequest
    \/ AltRequest

SpecFetch == InitFetchSpec /\ [][NextFetch]_vars

----------------------------------------------------------------------------
(* Properties of _fetch_page *)

\* the requests of the log with this action
RequestsOf(action) == { i \in 1..Len(sent) : sent[i].action = action }

\* C22 (as claimed): _fetch_page makes at most three requests; the search is
\* made only after a first answer that carries an error; the alternative
\* title is requested at most once; and _fetch_page either returns the page
\* or raises a BulbapediaError.
C22_FetchPageBounded ==
    /\ Len(sent) <= 3
    /\ \A i \in RequestsOf("opensearch") :
          i = 2 /\ sent[1].action = "parse" /\ HasError(sent[1].response)
    /\ Cardinality(RequestsOf("opensearch")) <= 1
    /\ Cardinality(RequestsOf("parse")) <= 2
    /\ \A i \in RequestsOf("parse") : i = 1 \/ (i = 3 /\ sent[i].page = alt_title[1])
    /\ fpc = "raised" => fetched[1].kind = "BulbapediaError"
    /\ fpc = "returned" => fetched[1].kind = "return"

----------------------------------------------------------------------------
(* The shape of the heading stack *)

\* "pokémon" in title.lower()
NamesPokemon(title) == Contains(Lower(title), <<112,111,107,233,109,111,110>>)

\* levels strictly increasing from bottom to top, each in 2..5, no empty title
WellFormed(stk) ==
    /\ \A i \in 1..Len(stk) : stk[i].level \in 2..5 /\ stk[i].title # <<>>
    /\ \A i \in 1..(Len(stk) - 1) : stk[i].level < stk[i + 1].level

\* C23: in every state of the walk the heading stack has strictly increasing
\* levels from bottom to top, every level lies in 2..5 and every title is
\* non-empty; hence the stack never holds more than four entries, and every
\* path under which a table is stored, and so every path returned, starts
\* with the title of a level-2 heading that contains "pokémon" (in any case).
C23_StackStrictlyNested ==
    /\ [](WellFormed(stack) /\ Len(stack) <= 4)
    /\ [][ \A s \in Touched(sections, sections') :
              /\ stack # <<>>
              /\ stack[1].level = 2
              /\ NamesPokemon(stack[1].title)
              /\ s.path # <<>>
              /\ s.path[1] = stack[1].title ]_vars
    /\ [](\A s \in sections : s.path # <<>> /\ NamesPokemon(s.path[1]))
    /\ [](\A i \in 1..Len(output) : output[i].path # <<>> /\ NamesPokemon(output[i].path[1]))

\* a table stored under four headings h2 to h5, the stack being full
C23_Witness ==
    /\ Len(stack) = 4
    /\ \A i \in 1..4 : stack[i].level = i + 1
    /\ \E s \in sections : Len(s.path) = 4 /\ s.path = TitlesOf(stack)

----------------------------------------------------------------------------
(* Properties of the span map and of the column cursor *)

\* C24 (as claimed): during grid construction every entry of span_map has a
\* remaining row count of at least 1, and inside _parse_row the column
\* cursor col_idx equals the number of values written to the row so far.
C24_CursorCountsValues ==
    /\ \A e \in span_map : e.remaining >= 1
    /\ tpc = "cells" => col_idx = Len(row_values)

----------------------------------------------------------------------------
(* Properties of the number of records *)

\* the records of what parse_table has returned, None having none
RecordsOf(res) == IF res = <<>> THEN <<>> ELSE res[1].rows

\* C25 (as claimed): every retained data row, which has at least one
\* non-empty cell, yields exactly one record of the returned table, in
\* source order: there are as many records as such rows and record k pairs
\* the labels with the values of row k, whatever the column labels are.
C25_OneRecordPerDataRow ==
    tpc = "done"
    => /\ Len(RecordsOf(result)) = Len(data_rows)
       /\ \A k \in 1..Len(RecordsOf(result)) :
             RecordsOf(result)[k] = PairsOf(result[1].columns, data_rows[k])

====
